---- MODULE Spec2Model ----
(***************************************************************************)
(* Delivery assignment and live tracking of the Imlocl backend.            *)
(*                                                                         *)
(*   - the REST handlers of server.ts that assign a delivery               *)
(*     (POST /api/deliveries), update its status                           *)
(*     (PUT /api/deliveries/:id/status) and switch a partner's             *)
(*     availability.  Every await of a handler is a point where another    *)
(*     request may run, so a handler is a sequence of steps, one per       *)
(*     storage call.                                                       *)
(*   - the tracking hub of websocket.ts: the activeDeliveries registry,    *)
(*     its event handlers and the deferred cleanups of stop-tracking.      *)
(***************************************************************************)
EXTENDS Integers, Sequences, FiniteSets, TLC

(* ----------------------------- bounds ---------------------------------- *)
\* Delivery rows the store may hold (ids are 1..MaxDeliveries).
MaxDeliveries == 4
\* Status-update requests accepted in one run.
MaxStatusRequests == 2
\* DeliveryTracking objects alive at once (in the Map or held by a pending
\* cleanup).
MaxObjects == 2
\* Cleanups pending at once.
MaxTimers == 2
\* Cleanups pending at once in the specifications of the event handlers
\* (EventsSpec, RoomsSpec), where the cleanups are not the subject.
MaxRoomTimers == 1

(* ------------------------ program constants ---------------------------- *)
\* currentOrders: { lt: 3 }  -- "Max 3 concurrent deliveries"
MAX_CONCURRENT == 3
\* setMinutes(getMinutes() + 30)
DELIVERY_BUFFER_MIN == 30
\* milliseconds in a minute / minutes in an hour, as Date counts them
MS_PER_MINUTE == 60000
MINUTES_PER_HOUR == 60

\* Delivery rows in progress when the server starts: one below the cap.
InitialOrders == MAX_CONCURRENT - 1

None == "None"

Partners == {"p1", "p2"}
Reqs == {"r1", "r2"}
DeliveryIds == 1..MaxDeliveries

\* enum DeliveryStatus after the add_delivery_models migration
DeliveryStatus ==
  {"ASSIGNED", "ON_THE_WAY_TO_STORE", "ARRIVED_AT_STORE", "PICKED_UP",
   "ON_THE_WAY", "ARRIVED", "DELIVERED", "FAILED", "CANCELLED"}
\* notIn: ['DELIVERED', 'FAILED', 'CANCELLED']
TerminalStatus == {"DELIVERED", "FAILED", "CANCELLED"}

\* Status values the update requests of a run carry.
StatusInputs == {"DELIVERED", "FAILED", "CANCELLED"}
\* estimatedPickupTime values the assign requests of a run carry: a time in ms
\* since the epoch (00:00:00.000 and 00:45:00.250), or a value that is no date
\* (a missing field, an unparseable string).
PickupInputs ==
  {[isDate |-> TRUE, ms |-> 0], [isDate |-> TRUE, ms |-> 2700250],
   [isDate |-> FALSE, ms |-> 0]}

VARIABLES
  partners,     \* DeliveryPartner rows: id -> [isActive, isAvailable, currentOrders, totalDeliveries]
  deliveries,   \* Delivery rows, in creation order; the id of a row is its index
  req,          \* the HTTP requests in progress, one record per request slot
  res,          \* the HTTP response the last step sent, if it sent one
  ioOut,        \* the events the last step asked server.ts's socket server to emit
  nStatus,      \* status-update requests accepted so far
  connected,        \* websocket.ts: the sockets that are connected
  activeDeliveries, \* websocket.ts: the Map deliveryId -> DeliveryTracking object (0: no entry)
  heap,             \* the DeliveryTracking objects, by reference
  rooms,            \* socket.io: the sockets joined to the room delivery-<id>
  timers,           \* the pending setTimeout callbacks of stop-tracking, oldest first
  sent,             \* the messages the last hub handler emitted, each with its receiver
  entryRooms,       \* server.ts: the sockets joined to the room delivery-<id> of its own io
  entrySent         \* server.ts: the messages its last socket handler emitted

restVars == <<partners, deliveries, req, res, ioOut, nStatus>>
hubVars == <<connected, activeDeliveries, heap, rooms, timers, sent>>
entryVars == <<entryRooms, entrySent>>
vars == <<restVars, hubVars, entryVars>>

(* ------------------------------ Date ----------------------------------- *)
\* new Date(value): a Date holding the time value, or an Invalid Date (time
\* value NaN, written valid = FALSE) for anything the Date parser rejects.
NewDate(v) ==
  IF v.isDate THEN [valid |-> TRUE, time |-> v.ms] ELSE [valid |-> FALSE, time |-> 0]

\* Date.prototype.getMinutes in the container's time zone (UTC: the image
\* node:20-alpine sets no TZ): the minute within the hour.
GetMinutes(t) == (t \div MS_PER_MINUTE) % MINUTES_PER_HOUR

\* A setMinutes that wraps the minutes instead of carrying into the hour.
SetMinutes_NoCarry(t, min) ==
  LET msPerHour == MS_PER_MINUTE * MINUTES_PER_HOUR
  IN  (t - (t % msPerHour)) + (min % MINUTES_PER_HOUR) * MS_PER_MINUTE + (t % MS_PER_MINUTE)

\* Date.prototype.setMinutes(min): the date's hour, min minutes (carrying
\* into the hour when min >= 60), and the date's seconds and milliseconds.
SetMinutes(t, min) ==
  LET msPerHour == MS_PER_MINUTE * MINUTES_PER_HOUR
      hourStart == t - (t % msPerHour)
      secMs     == t % MS_PER_MINUTE
  IN  hourStart + min * MS_PER_MINUTE + secMs

\* const estimatedDeliveryTime = new Date(estimatedPickupTime);
\* estimatedDeliveryTime.setMinutes(estimatedDeliveryTime.getMinutes() + 30);
EstimatedDeliveryTime(estimatedPickupTime) ==
  LET d == NewDate(estimatedPickupTime)
  IN  IF d.valid
        THEN [d EXCEPT !.time = SetMinutes(d.time, GetMinutes(d.time) + DELIVERY_BUFFER_MIN)]
        ELSE d

(* ------------------------ websocket.ts --------------------------------- *)
\* Socket ids, and the delivery ids the hub's events carry.
Conns == {"c1", "c2"}
HubIds == {"d1", "d2"}
\* const { deliveryId } = data on a payload that has no deliveryId: undefined,
\* which a Map takes as a key like any other (and the room is
\* "delivery-undefined").
Undefined == "undefined"
\* The keys the Map and the rooms are seen with.
MapKeys == HubIds \cup {Undefined}
Refs == 1..MaxObjects

\* Payloads of the partner events of a run.  Every delivery-status event
\* carries a status (DeliveryTracking.status: string); estimatedDeliveryTime is
\* optional ("": not supplied).
HubStatusInputs == {"PICKED_UP", "DELIVERED"}
EtaInputs == {"", "18:30"}
LocationInputs ==
  {[lat |-> 17, lng |-> 78, timestamp |-> [isDate |-> TRUE, ms |-> 2000]],
   [lat |-> 18, lng |-> 79, timestamp |-> [isDate |-> TRUE, ms |-> 1000]]}

\* partnerLocation?: LocationUpdate -- not set
NoLocation ==
  [present |-> FALSE, lat |-> 0, lng |-> 0, timestamp |-> [valid |-> FALSE, time |-> 0]]

\* A heap cell that holds no object.
BlankTracking ==
  [deliveryId |-> None, subscribers |-> {}, status |-> "",
   estimatedDeliveryTime |-> "", partnerLocation |-> NoLocation]

\* delivery = { deliveryId, subscribers: new Set(), status, estimatedDeliveryTime }
NewTracking(deliveryId, status, estimatedDeliveryTime) ==
  [deliveryId |-> deliveryId, subscribers |-> {}, status |-> status,
   estimatedDeliveryTime |-> estimatedDeliveryTime, partnerLocation |-> NoLocation]

\* An assignment of the value supplied, empty or not.
OrElse_Overwrite(a, b) == a

\* a || b on strings: b when a is empty or missing
OrElse(a, b) == IF a = "" THEN b ELSE a

\* An object is reachable from the Map or from the closure of a pending
\* cleanup; any other is garbage.
InMap(ref, map) == \E d \in MapKeys : map[d] = ref

InUse(ref, map, tms) ==
  \/ InMap(ref, map)
  \/ \E i \in 1..Len(tms) : tms[i].delivery = ref

\* The heap after a cleanup ran.  An object out of the Map is reachable from
\* closures only; no handler can change it any more, and the closures read
\* nothing of it but subscribers.size === 0.  Its other fields are dropped
\* with the garbage, and a subscriber set that is not empty is kept as Conns.
Collect(h, map, tms) ==
  [ref \in Refs |->
     IF InMap(ref, map) THEN h[ref]
     ELSE IF InUse(ref, map, tms)
       THEN [BlankTracking EXCEPT
               !.deliveryId = h[ref].deliveryId,
               !.subscribers = IF h[ref].subscribers = {} THEN {} ELSE Conns]
       ELSE BlankTracking]

\* let delivery = activeDeliveries.get(deliveryId);
\* if (!delivery) { delivery = {...}; activeDeliveries.set(deliveryId, delivery); }
CanGetOrCreate(d) ==
  activeDeliveries[d] # 0 \/ \E ref \in Refs : ~ InUse(ref, activeDeliveries, timers)

GetOrCreate(d, status, estimatedDeliveryTime) ==
  IF activeDeliveries[d] # 0
    THEN [map |-> activeDeliveries, heap |-> heap, ref |-> activeDeliveries[d]]
    ELSE LET ref == CHOOSE x \in Refs :
                      /\ ~ InUse(x, activeDeliveries, timers)
                      /\ \A y \in Refs : ~ InUse(y, activeDeliveries, timers) => x <= y
         IN  [map  |-> [activeDeliveries EXCEPT ![d] = ref],
              heap |-> [heap EXCEPT ![ref] = NewTracking(d, status, estimatedDeliveryTime)],
              ref  |-> ref]

\* An emit to every connected socket in place of the room.
ToRoom_AsIoEmit(d, event, status, estimatedDeliveryTime, location) ==
  {[to |-> c, via |-> "room", event |-> event, status |-> status,
    estimatedDeliveryTime |-> estimatedDeliveryTime, location |-> location] :
     c \in connected}

\* io.to(`delivery-${deliveryId}`).emit(event, payload): one message for each
\* socket in the room.
ToRoom(d, event, status, estimatedDeliveryTime, location) ==
  {[to |-> c, via |-> "room", event |-> event, status |-> status,
    estimatedDeliveryTime |-> estimatedDeliveryTime, location |-> location] :
     c \in rooms[d]}

\* An emit on the server in place of the socket: every connected socket
\* gets the message.
ToSocket_AsIoEmit(c, event, status, estimatedDeliveryTime, location) ==
  {[to |-> x, via |-> "socket", event |-> event, status |-> status,
    estimatedDeliveryTime |-> estimatedDeliveryTime, location |-> location] :
     x \in connected}

\* socket.emit(event, payload): one message, for that socket.
ToSocket(c, event, status, estimatedDeliveryTime, location) ==
  {[to |-> c, via |-> "socket", event |-> event, status |-> status,
    estimatedDeliveryTime |-> estimatedDeliveryTime, location |-> location]}

\* A lookup that makes the record it does not find.
MapGet_AsGetOrCreate(d) ==
  IF CanGetOrCreate(d)
    THEN GetOrCreate(d, "ASSIGNED", "")
    ELSE [map |-> activeDeliveries, heap |-> heap, ref |-> activeDeliveries[d]]

\* activeDeliveries.get(deliveryId): the Map and the objects after the call,
\* and the object found (0: undefined).
MapGet(d) ==
  [map |-> activeDeliveries, heap |-> heap, ref |-> activeDeliveries[d]]

\* export function getDeliveryStatus(deliveryId)
GetDeliveryStatus(d) ==
  IF activeDeliveries[d] = 0 THEN BlankTracking ELSE heap[activeDeliveries[d]]

\* io.on('connection', ...)
HubConnect(c) ==
  /\ c \notin connected
  /\ connected' = connected \cup {c}
  /\ sent' = {}
  /\ UNCHANGED <<activeDeliveries, heap, rooms, timers>>

\* The connection reaches the hub alone.
Connect(c) ==
  /\ HubConnect(c)
  /\ UNCHANGED restVars
  /\ UNCHANGED entryVars

\* { lat, lng, timestamp: new Date(timestamp) }
Reading(loc) ==
  [present |-> TRUE, lat |-> loc.lat, lng |-> loc.lng,
   timestamp |-> NewDate(loc.timestamp)]

\* A store that keeps the reading with the newer timestamp.
StoreLocation_KeepNewest(delivery, reading) ==
  IF /\ delivery.partnerLocation.present
     /\ delivery.partnerLocation.timestamp.time > reading.timestamp.time
    THEN delivery
    ELSE [delivery EXCEPT !.partnerLocation = reading]

\* delivery.partnerLocation = reading
StoreLocation(delivery, reading) ==
  [delivery EXCEPT !.partnerLocation = reading]

\* socket.on('location-update', ...) of some connected socket; the handler
\* does not read the socket.
HubLocationUpdate(d, loc) ==
  /\ connected # {}
  /\ CanGetOrCreate(d)
  /\ LET e == GetOrCreate(d, "ASSIGNED", "")
     IN  /\ activeDeliveries' = e.map
         /\ heap' = [e.heap EXCEPT ![e.ref] = StoreLocation(@, Reading(loc))]
  /\ sent' = ToRoom(d, "partner-location", "", "",
                    [present |-> TRUE, lat |-> loc.lat, lng |-> loc.lng,
                     timestamp |-> loc.timestamp])
  /\ UNCHANGED <<connected, rooms, timers>>

\* The event reaches the hub alone.
LocationUpdate(d, loc) ==
  /\ HubLocationUpdate(d, loc)
  /\ UNCHANGED restVars
  /\ UNCHANGED entryVars

\* socket.on('delivery-status', ...) of some connected socket; the handler
\* does not read the socket.
StatusUpdate(d, status, estimatedDeliveryTime) ==
  /\ connected # {}
  /\ CanGetOrCreate(d)
  /\ LET e == GetOrCreate(d, status, estimatedDeliveryTime)
         h == IF activeDeliveries[d] = 0
                THEN e.heap
                ELSE [e.heap EXCEPT
                        ![e.ref].status = status,
                        ![e.ref].estimatedDeliveryTime = OrElse(estimatedDeliveryTime, @)]
     IN  /\ activeDeliveries' = e.map
         /\ heap' = h
         /\ sent' = ToRoom(d, "delivery-status", status,
                           h[e.ref].estimatedDeliveryTime, NoLocation)
  /\ UNCHANGED <<connected, rooms, timers>>
  /\ UNCHANGED restVars
  /\ UNCHANGED entryVars

\* socket.on('track-delivery', ...)
HubTrackDelivery(c, d) ==
  /\ c \in connected
  /\ CanGetOrCreate(d)
  /\ rooms' = [rooms EXCEPT ![d] = @ \cup {c}]
  /\ LET e == GetOrCreate(d, "ASSIGNED", "")
         delivery == e.heap[e.ref]
     IN  /\ activeDeliveries' = e.map
         /\ heap' = [e.heap EXCEPT ![e.ref].subscribers = @ \cup {c}]
         /\ sent' =
              (IF delivery.status # ""
                 THEN ToSocket(c, "delivery-status", delivery.status,
                               delivery.estimatedDeliveryTime, NoLocation)
                 ELSE {})
              \cup
              (IF delivery.partnerLocation.present
                 THEN ToSocket(c, "partner-location", "", "", delivery.partnerLocation)
                 ELSE {})
  /\ UNCHANGED <<connected, timers>>

\* The event reaches the hub alone.
TrackDelivery(c, d) ==
  /\ HubTrackDelivery(c, d)
  /\ UNCHANGED restVars
  /\ UNCHANGED entryVars

\* socket.on('stop-tracking', ...): the closure of setTimeout holds the object
\* found now (delivery) and the id.  emptied notes whether this event took the
\* last subscriber out (the callback does not read it).
StopTracking(c, d) ==
  /\ c \in connected
  /\ rooms' = [rooms EXCEPT ![d] = @ \ {c}]
  /\ LET ref == activeDeliveries[d] IN
     IF ref # 0
       THEN /\ heap' = [heap EXCEPT ![ref].subscribers = @ \ {c}]
            /\ IF heap'[ref].subscribers = {}
                 THEN /\ Len(timers) < MaxTimers
                      /\ timers' = Append(timers,
                           [deliveryId |-> d, delivery |-> ref,
                            emptied |-> c \in heap[ref].subscribers])
                 ELSE timers' = timers
       ELSE UNCHANGED <<heap, timers>>
  /\ sent' = {}
  /\ UNCHANGED <<connected, activeDeliveries>>
  /\ UNCHANGED restVars
  /\ UNCHANGED entryVars

\* The callback of the oldest pending setTimeout runs (all have the same
\* delay, so they run in the order they were set):
\* if (delivery.subscribers.size === 0) activeDeliveries.delete(deliveryId)
CleanupFires ==
  /\ timers # <<>>
  /\ LET t == Head(timers)
         map == IF heap[t.delivery].subscribers = {}
                  THEN [activeDeliveries EXCEPT ![t.deliveryId] = 0]
                  ELSE activeDeliveries
     IN  /\ activeDeliveries' = map
         /\ timers' = Tail(timers)
         /\ heap' = Collect(heap, map, Tail(timers))
  /\ sent' = {}
  /\ UNCHANGED <<connected, rooms>>
  /\ UNCHANGED restVars
  /\ UNCHANGED entryVars

\* A removal that empties the set.
WithoutSubscriber_Clear(delivery, c) ==
  [delivery EXCEPT !.subscribers = {}]

\* if (delivery.subscribers.has(socket.id)) delivery.subscribers.delete(socket.id)
WithoutSubscriber(delivery, c) ==
  [delivery EXCEPT !.subscribers = @ \ {c}]

\* socket.on('disconnect', ...): activeDeliveries.forEach over the records of
\* the Map; socket.io takes the socket out of its rooms.
HubDisconnect(c) ==
  /\ c \in connected
  /\ connected' = connected \ {c}
  /\ heap' = [ref \in Refs |->
               IF InMap(ref, activeDeliveries)
                 THEN WithoutSubscriber(heap[ref], c)
                 ELSE heap[ref]]
  /\ rooms' = [d \in MapKeys |-> rooms[d] \ {c}]
  /\ sent' = {}
  /\ UNCHANGED <<activeDeliveries, timers>>

\* The disconnect reaches the hub alone.
Disconnect(c) ==
  /\ HubDisconnect(c)
  /\ UNCHANGED restVars
  /\ UNCHANGED entryVars

\* app.get("/api/deliveries/:id"): the row is looked up (404 when the store
\* has none), then the answer carries realtime: getDeliveryStatus(id) || null.
GetDelivery(d, found) ==
  /\ LET e == MapGet(d)
         wsStatus == IF e.ref = 0 THEN BlankTracking ELSE e.heap[e.ref]
     IN  /\ activeDeliveries' = e.map
         /\ heap' = e.heap
         /\ sent' = IF found
                      THEN {[to |-> "http", via |-> "res", event |-> "delivery",
                             status |-> wsStatus.status,
                             estimatedDeliveryTime |-> wsStatus.estimatedDeliveryTime,
                             location |-> wsStatus.partnerLocation]}
                      ELSE {[to |-> "http", via |-> "res", event |-> "not-found",
                             status |-> "", estimatedDeliveryTime |-> "",
                             location |-> NoLocation]}
  /\ UNCHANGED <<connected, rooms, timers>>
  /\ UNCHANGED restVars
  /\ UNCHANGED entryVars

(* ------------------ server.ts: io.on('connection') --------------------- *)
\* The socket handlers server.ts registers on its own socket server.  They
\* keep no registry; the rooms are those of that server.

\* io.on('connection', ...): a log line.
EntryConnect(c) ==
  /\ entrySent' = {}
  /\ UNCHANGED entryRooms

\* io.to(`delivery-${deliveryId}`).emit(event, payload) on server.ts's io.
EntryToRoom(d, event, status, estimatedDeliveryTime, location) ==
  {[to |-> c, via |-> "room", event |-> event, status |-> status,
    estimatedDeliveryTime |-> estimatedDeliveryTime, location |-> location] :
     c \in entryRooms[d]}

\* socket.on('location-update', ...)
EntryLocationUpdate(d, loc) ==
  /\ entrySent' = EntryToRoom(d, "partner-location", "", "",
                              [present |-> TRUE, lat |-> loc.lat, lng |-> loc.lng,
                               timestamp |-> loc.timestamp])
  /\ UNCHANGED entryRooms

\* socket.on('track-delivery', ...): socket.join and nothing else.
EntryTrackDelivery(c, d) ==
  /\ entryRooms' = [entryRooms EXCEPT ![d] = @ \cup {c}]
  /\ entrySent' = {}

\* No disconnect handler; socket.io takes the socket out of its rooms.
EntryDisconnect(c) ==
  /\ entryRooms' = [d \in MapKeys |-> entryRooms[d] \ {c}]
  /\ entrySent' = {}

(* --------------------------- the store --------------------------------- *)
\* A where clause that forgets isActive.
Eligible_NoActive(row) ==
  row.isAvailable /\ row.currentOrders < MAX_CONCURRENT

\* A where clause with lte in place of lt.
Eligible_Lte(row) ==
  row.isAvailable /\ row.isActive /\ row.currentOrders <= MAX_CONCURRENT

\* where: { isAvailable: true, isActive: true, currentOrders: { lt: 3 } }
Eligible(row) ==
  /\ row.isAvailable
  /\ row.isActive
  /\ row.currentOrders < MAX_CONCURRENT

\* prisma.deliveryPartner.findFirst: the ids it may return (no orderBy: any
\* matching row), or None when no row matches.
FindFirstPartner ==
  IF \E p \in Partners : Eligible(partners[p])
    THEN {p \in Partners : Eligible(partners[p])}
    ELSE {None}

NoPartner == [id |-> None, currentOrders |-> 0]
\* lat and lng of a request body that has none (undefined), or has 0: both are
\* falsy in if (lat && lng).
NoLatLng == [lat |-> 0, lng |-> 0]
NoPickup == [isDate |-> FALSE, ms |-> 0]

\* A request slot: the handler that runs (kind), where it stands (pc), the
\* request's inputs (estimatedPickupTime; id, status, lat and lng) and the
\* handler's locals (availablePartner: the row findFirst returned; delivery:
\* the id of the row create returned; found: the partnerId of the row
\* findUnique returned).
IdleReq ==
  [kind |-> "none", pc |-> "idle", estimatedPickupTime |-> NoPickup,
   availablePartner |-> NoPartner, delivery |-> 0, id |-> 0, status |-> None,
   location |-> NoLatLng, found |-> None]

NoRes == [req |-> None, kind |-> "none", code |-> 0]

\* return res.status(code).json(...) of the handler in slot r.
Response(r, kind, code) == [req |-> r, kind |-> kind, code |-> code]

\* The handler has returned: its locals are gone and the slot is free.
Finish(r) == [req EXCEPT ![r] = IdleReq]

Free(r) == req[r].pc = "idle"

\* The row of a Delivery id, when the store holds it.
Exists(id) == id \in 1..Len(deliveries)

NewDelivery(partnerId, pickup, eta) ==
  [partnerId |-> partnerId, status |-> "ASSIGNED",
   estimatedPickupTime |-> pickup, estimatedDeliveryTime |-> eta,
   pickedUpAt |-> FALSE, deliveredAt |-> FALSE,
   currentLat |-> 0, currentLng |-> 0, lastLocationUpdate |-> FALSE]

\* The server starts on a store that earlier runs filled: partner p1 has
\* InitialOrders deliveries in progress, partner p2 none; p2 may have been
\* deactivated.
Init ==
  /\ partners \in
       {f \in [Partners -> [isActive : BOOLEAN, isAvailable : {TRUE},
                            currentOrders : {0, InitialOrders}, totalDeliveries : {0}]] :
          /\ f["p1"].isActive /\ f["p1"].currentOrders = InitialOrders
          /\ f["p2"].currentOrders = 0}
  /\ deliveries = [i \in 1..InitialOrders |->
                     NewDelivery("p1", 0, EstimatedDeliveryTime([isDate |-> TRUE, ms |-> 0]).time)]
  /\ req = [r \in Reqs |-> IdleReq]
  /\ res = NoRes
  /\ ioOut = {}
  /\ nStatus = 0
  /\ connected = {}
  /\ activeDeliveries = [d \in MapKeys |-> 0]
  /\ heap = [ref \in Refs |-> BlankTracking]
  /\ rooms = [d \in MapKeys |-> {}]
  /\ timers = <<>>
  /\ sent = {}
  /\ entryRooms = [d \in MapKeys |-> {}]
  /\ entrySent = {}

(* ---------------------- POST /api/deliveries --------------------------- *)
\* requireMeatPartnerApproved refuses the caller (no token, unknown token, no
\* approved meat partner): the handler answers gate.status and does nothing.
GateRejected(r, kind) ==
  /\ Free(r)
  /\ res # Response(r, kind, 401)
  /\ res' = Response(r, kind, 401)
  /\ ioOut' = {}
  /\ UNCHANGED <<partners, deliveries, req, nStatus>>
  /\ UNCHANGED hubVars
  /\ UNCHANGED entryVars

\* The gate passes, ensureMeatShop returns the shop, and findFirst looks for
\* an available partner.  None: 400 "No delivery partners available".
AssignFindPartner(r, pickup) ==
  /\ Free(r)
  /\ Len(deliveries) + Cardinality({q \in Reqs : req[q].pc = "create"}) < MaxDeliveries
  /\ \E p \in FindFirstPartner :
       IF p = None
         THEN /\ req' = req
              /\ res' = Response(r, "assign", 400)
         ELSE /\ req' = [req EXCEPT ![r] =
                    [IdleReq EXCEPT !.kind = "assign", !.pc = "create",
                                    !.estimatedPickupTime = pickup,
                                    !.availablePartner =
                                       [id |-> p,
                                        currentOrders |-> partners[p].currentOrders]]]
              /\ res' = NoRes
  /\ ioOut' = {}
  /\ UNCHANGED <<partners, deliveries, nStatus>>
  /\ UNCHANGED hubVars
  /\ UNCHANGED entryVars

\* prisma.delivery.create.  An Invalid Date in the data makes the call throw:
\* the catch answers 500 and no row is stored.
AssignCreateDelivery(r) ==
  /\ req[r].pc = "create"
  /\ LET pickup == NewDate(req[r].estimatedPickupTime)
         eta    == EstimatedDeliveryTime(req[r].estimatedPickupTime)
     IN  IF pickup.valid /\ eta.valid
           THEN /\ deliveries' = Append(deliveries,
                     NewDelivery(req[r].availablePartner.id, pickup.time, eta.time))
                /\ req' = [req EXCEPT ![r].pc = "increment",
                                      ![r].delivery = Len(deliveries) + 1]
                /\ res' = NoRes
           ELSE /\ deliveries' = deliveries
                /\ req' = Finish(r)
                /\ res' = Response(r, "assign", 500)
  /\ ioOut' = {}
  /\ UNCHANGED <<partners, nStatus>>
  /\ UNCHANGED hubVars
  /\ UNCHANGED entryVars

\* A handler that goes on to the emit without the partner update.
AssignIncrementOrders_Skipped(r) ==
  /\ req[r].pc = "increment"
  /\ req' = [req EXCEPT ![r].pc = "emit"]
  /\ res' = NoRes
  /\ ioOut' = {}
  /\ UNCHANGED <<partners, deliveries, nStatus>>
  /\ UNCHANGED hubVars
  /\ UNCHANGED entryVars

\* prisma.deliveryPartner.update({ data: { currentOrders: { increment: 1 } } })
AssignIncrementOrders(r) ==
  /\ req[r].pc = "increment"
  /\ LET p == req[r].availablePartner.id
     IN  partners' = [partners EXCEPT ![p].currentOrders = @ + 1]
  /\ req' = [req EXCEPT ![r].pc = "emit"]
  /\ res' = NoRes
  /\ ioOut' = {}
  /\ UNCHANGED <<deliveries, nStatus>>
  /\ UNCHANGED hubVars
  /\ UNCHANGED entryVars

\* The deliveryPartner.update of the handler rejects (the store is unreachable,
\* the statement times out): the catch answers 500.  The row create stored
\* stays, nothing undoes it.
AssignIncrementFails(r) ==
  /\ req[r].pc = "increment"
  /\ req' = Finish(r)
  /\ res' = Response(r, "assign", 500)
  /\ ioOut' = {}
  /\ UNCHANGED <<partners, deliveries, nStatus>>
  /\ UNCHANGED hubVars
  /\ UNCHANGED entryVars

\* io.emit('delivery-created', ...) with the row create returned, then
\* res.json({ delivery }).
AssignEmitCreated(r) ==
  /\ req[r].pc = "emit"
  /\ ioOut' = {[event |-> "delivery-created", deliveryId |-> req[r].delivery,
                status |-> "ASSIGNED", partner |-> req[r].availablePartner.id]}
  /\ req' = Finish(r)
  /\ res' = Response(r, "assign", 200)
  /\ UNCHANGED <<partners, deliveries, nStatus>>
  /\ UNCHANGED hubVars
  /\ UNCHANGED entryVars

(* ------------------ PUT /api/deliveries/:id/status --------------------- *)
\* The gate passes.  For DELIVERED the handler first reads the row
\* (findUnique); for every other status it goes straight to the row update.
StatusStart(r, id, status, location) ==
  /\ Free(r)
  /\ nStatus < MaxStatusRequests
  /\ nStatus' = nStatus + 1
  /\ req' = [req EXCEPT ![r] =
       [IdleReq EXCEPT !.kind = "status", !.id = id, !.status = status,
                       !.location = location,
                       !.pc = IF status = "DELIVERED" /\ Exists(id)
                                THEN "partner" ELSE "update",
                       !.found = IF status = "DELIVERED" /\ Exists(id)
                                   THEN deliveries[id].partnerId ELSE None]]
  /\ res' = NoRes
  /\ ioOut' = {}
  /\ UNCHANGED <<partners, deliveries>>
  /\ UNCHANGED hubVars
  /\ UNCHANGED entryVars

\* if (delivery) prisma.deliveryPartner.update({ data: {
\*   currentOrders: { decrement: 1 }, totalDeliveries: { increment: 1 } } })
StatusUpdatePartner(r) ==
  /\ req[r].pc = "partner"
  /\ partners' = [partners EXCEPT ![req[r].found].currentOrders = @ - 1,
                                  ![req[r].found].totalDeliveries = @ + 1]
  /\ req' = [req EXCEPT ![r].pc = "update"]
  /\ res' = NoRes
  /\ ioOut' = {}
  /\ UNCHANGED <<deliveries, nStatus>>
  /\ UNCHANGED hubVars
  /\ UNCHANGED entryVars

\* if (lat && lng)
HasLatLng(location) == location.lat # 0 /\ location.lng # 0

\* updateData of the handler, applied to the row.
UpdateData(row, status, location) ==
  [row EXCEPT !.status = status,
              !.pickedUpAt = IF status = "PICKED_UP" THEN TRUE ELSE @,
              !.deliveredAt = IF status = "DELIVERED" THEN TRUE ELSE @,
              !.currentLat = IF HasLatLng(location) THEN location.lat ELSE @,
              !.currentLng = IF HasLatLng(location) THEN location.lng ELSE @,
              !.lastLocationUpdate = IF HasLatLng(location) THEN TRUE ELSE @]

\* An update of a status column that takes any string.
StatusUpdateDelivery_AnyStatus(r) ==
  /\ req[r].pc = "update"
  /\ IF Exists(req[r].id)
       THEN /\ deliveries' = [deliveries EXCEPT ![req[r].id] =
                                   UpdateData(@, req[r].status, req[r].location)]
            /\ req' = [req EXCEPT ![r].pc = "broadcast"]
            /\ res' = NoRes
       ELSE /\ deliveries' = deliveries
            /\ req' = Finish(r)
            /\ res' = Response(r, "status", 500)
  /\ ioOut' = {}
  /\ UNCHANGED <<partners, nStatus>>
  /\ UNCHANGED hubVars
  /\ UNCHANGED entryVars

\* prisma.delivery.update({ where: { id }, data: updateData }): throws when no
\* row has the id or the status is no DeliveryStatus; the catch answers 500.
StatusUpdateDelivery(r) ==
  /\ req[r].pc = "update"
  /\ IF Exists(req[r].id) /\ req[r].status \in DeliveryStatus
       THEN /\ deliveries' = [deliveries EXCEPT ![req[r].id] =
                                   UpdateData(@, req[r].status, req[r].location)]
            /\ req' = [req EXCEPT ![r].pc = "broadcast"]
            /\ res' = NoRes
       ELSE /\ deliveries' = deliveries
            /\ req' = Finish(r)
            /\ res' = Response(r, "status", 500)
  /\ ioOut' = {}
  /\ UNCHANGED <<partners, nStatus>>
  /\ UNCHANGED hubVars
  /\ UNCHANGED entryVars

\* The delivery.update of the handler rejects although the row is there and
\* the status is valid (the store is unreachable, the statement times out):
\* the catch answers 500.  What the partner update wrote stays, nothing undoes
\* it.
StatusUpdateDeliveryFails(r) ==
  /\ req[r].pc = "update"
  /\ Exists(req[r].id) /\ req[r].status \in DeliveryStatus
  /\ req' = Finish(r)
  /\ res' = Response(r, "status", 500)
  /\ ioOut' = {}
  /\ UNCHANGED <<partners, deliveries, nStatus>>
  /\ UNCHANGED hubVars
  /\ UNCHANGED entryVars

\* io.to(`delivery-${id}`).emit('delivery-status', ...) with the row update
\* returned, io.to(`delivery-${id}`).emit('partner-location', ...) when the
\* request carried lat and lng, then res.json({ delivery }).
StatusBroadcast(r) ==
  /\ req[r].pc = "broadcast"
  /\ ioOut' = {[event |-> "delivery-status", deliveryId |-> req[r].id,
                status |-> req[r].status, partner |-> None]}
               \cup
               (IF HasLatLng(req[r].location)
                  THEN {[event |-> "partner-location", deliveryId |-> req[r].id,
                         status |-> None, partner |-> None,
                         lat |-> req[r].location.lat, lng |-> req[r].location.lng]}
                  ELSE {})
  /\ req' = Finish(r)
  /\ res' = Response(r, "status", 200)
  /\ UNCHANGED <<partners, deliveries, nStatus>>
  /\ UNCHANGED hubVars
  /\ UNCHANGED entryVars

(* ------------- PUT /api/delivery-partners/:id/availability ------------- *)
UpdateAvailability(p, isAvailable) ==
  /\ partners[p].isAvailable # isAvailable
  /\ partners' = [partners EXCEPT ![p].isAvailable = isAvailable]
  /\ res' = NoRes
  /\ ioOut' = {}
  /\ UNCHANGED <<deliveries, req, nStatus>>
  /\ UNCHANGED hubVars
  /\ UNCHANGED entryVars

(* ------------------------- specifications ------------------------------ *)
Step(r) ==
  \/ AssignCreateDelivery(r)
  \/ AssignIncrementOrders(r)
  \/ AssignEmitCreated(r)
  \/ StatusUpdatePartner(r)
  \/ StatusUpdateDelivery(r)
  \/ StatusBroadcast(r)

StartAssign(r) ==
  \/ GateRejected(r, "assign")
  \/ \E pickup \in PickupInputs : AssignFindPartner(r, pickup)

StartStatus(r) ==
  \/ GateRejected(r, "status")
  \/ \E id \in DeliveryIds, status \in StatusInputs :
       StatusStart(r, id, status, NoLatLng)

Next ==
  \/ \E r \in Reqs : StartAssign(r) \/ StartStatus(r) \/ Step(r)
  \/ \E p \in Partners, b \in BOOLEAN : UpdateAvailability(p, b)

\* Requests arrive at any time: a handler's awaits interleave with the steps
\* of the other requests.
Spec == Init /\ [][Next]_vars

\* Concurrent POST /api/deliveries requests only (and availability switches).
AssignStep(r) ==
  \/ AssignCreateDelivery(r)
  \/ AssignIncrementOrders(r)
  \/ AssignEmitCreated(r)

NextAssign ==
  \/ \E r \in Reqs : StartAssign(r) \/ AssignStep(r)
  \/ \E p \in Partners, b \in BOOLEAN : UpdateAvailability(p, b)

AssignSpec == Init /\ [][NextAssign]_vars

\* Concurrent POST /api/deliveries requests on a store whose writes may fail.
NextFault ==
  \/ NextAssign
  \/ \E r \in Reqs : AssignIncrementFails(r)

FaultSpec == Init /\ [][NextFault]_vars

\* One request at a time: the next request arrives when the one before it has
\* been answered, so one slot holds them all.
SeqReq == "r1"

NextSeq ==
  \/ StartAssign(SeqReq) \/ StartStatus(SeqReq) \/ Step(SeqReq)
  \/ \E p \in Partners, b \in BOOLEAN : Free(SeqReq) /\ UpdateAvailability(p, b)

SeqSpec == Init /\ [][NextSeq]_vars

\* One request at a time, with status updates that carry DELIVERED or a value
\* that is no DeliveryStatus, for ids the store holds or not.
InvalidStatus == "LOST"
RejectStatusInputs == {"DELIVERED", InvalidStatus}

NextReject ==
  \/ StartAssign(SeqReq)
  \/ GateRejected(SeqReq, "status")
  \/ \E id \in DeliveryIds, status \in RejectStatusInputs :
       StatusStart(SeqReq, id, status, NoLatLng)
  \/ Step(SeqReq)

RejectSpec == Init /\ [][NextReject]_vars

\* One request at a time on a store whose row update may fail; the status
\* updates carry DELIVERED for a delivery that is in the store and is not
\* DELIVERED yet (a first attempt, or the retry of one that failed).
NextRetry ==
  \/ StartAssign(SeqReq)
  \/ \E id \in DeliveryIds :
       /\ Exists(id)
       /\ deliveries[id].status # "DELIVERED"
       /\ StatusStart(SeqReq, id, "DELIVERED", NoLatLng)
  \/ Step(SeqReq)
  \/ StatusUpdateDeliveryFails(SeqReq)

RetrySpec == Init /\ [][NextRetry]_vars

\* The tracking hub of websocket.ts: socket.io runs one handler at a time.
\* All its events are about one delivery.
HubId == "d1"

NextHub ==
  \/ \E c \in Conns : Connect(c) \/ Disconnect(c)
  \/ \E loc \in LocationInputs : LocationUpdate(HubId, loc)
  \/ \E status \in HubStatusInputs, eta \in EtaInputs :
       StatusUpdate(HubId, status, eta)
  \/ \E c \in Conns : TrackDelivery(c, HubId) \/ StopTracking(c, HubId)
  \/ CleanupFires

HubInit == Init /\ partners["p2"].isActive

HubSpec == HubInit /\ [][NextHub]_vars

\* A pending setTimeout callback does run: the event loop calls it once its
\* delay has passed.
HubFairSpec == HubSpec /\ WF_vars(CleanupFires)

\* The events of one delivery, with few cleanups pending at once.
NextEvents == NextHub /\ Len(timers') <= MaxRoomTimers

EventsSpec == HubInit /\ [][NextEvents]_vars

\* The hub with two deliveries tracked at once, and the REST lookup of a
\* delivery's realtime record.  The partner of HubId reports one reading and
\* one status; the other delivery is only subscribed to.
RoomsLocation == CHOOSE loc \in LocationInputs : loc.timestamp.ms = 2000
RoomsStatus == "PICKED_UP"
RoomsEta == "18:30"

HubEvent ==
  \/ \E c \in Conns : Connect(c) \/ Disconnect(c)
  \/ LocationUpdate(HubId, RoomsLocation)
  \/ StatusUpdate(HubId, RoomsStatus, RoomsEta)
  \/ \E c \in Conns, d \in HubIds : TrackDelivery(c, d)
  \/ \E c \in Conns : StopTracking(c, HubId)
  \/ CleanupFires
  \/ \E d \in HubIds, found \in BOOLEAN : GetDelivery(d, found)

NextRooms == HubEvent /\ Len(timers') <= MaxRoomTimers

RoomsSpec == HubInit /\ [][NextRooms]_vars

\* The hub and the REST status update in one process, both about one
\* delivery: HubId is the id of the Delivery row HubRow (the room of the
\* REST broadcast is `delivery-${id}`).  Nobody unsubscribes.
HubRow == 1
TrackStatusInputs == {"ON_THE_WAY", "DELIVERED"}
LatLngInputs == {NoLatLng, [lat |-> 17, lng |-> 78]}

StatusStep(r) ==
  \/ StatusUpdatePartner(r)
  \/ StatusUpdateDelivery(r)
  \/ StatusBroadcast(r)

NextTrack ==
  \/ \E c \in Conns : Connect(c) \/ Disconnect(c)
  \/ LocationUpdate(HubId, RoomsLocation)
  \/ \E status \in HubStatusInputs : StatusUpdate(HubId, status, RoomsEta)
  \/ \E c \in Conns : TrackDelivery(c, HubId)
  \/ \E status \in TrackStatusInputs, location \in LatLngInputs :
       StatusStart(SeqReq, HubRow, status, location)
  \/ StatusStep(SeqReq)

TrackSpec == HubInit /\ [][NextTrack]_vars

\* The same connections and the same location-update and track-delivery
\* events given to the handlers of websocket.ts and to those of server.ts,
\* each with its own rooms.
PairConnect(c) ==
  /\ HubConnect(c)
  /\ EntryConnect(c)
  /\ UNCHANGED restVars

PairLocationUpdate(d, loc) ==
  /\ HubLocationUpdate(d, loc)
  /\ EntryLocationUpdate(d, loc)
  /\ UNCHANGED restVars

PairTrackDelivery(c, d) ==
  /\ HubTrackDelivery(c, d)
  /\ EntryTrackDelivery(c, d)
  /\ UNCHANGED restVars

PairDisconnect(c) ==
  /\ HubDisconnect(c)
  /\ EntryDisconnect(c)
  /\ UNCHANGED restVars

NextPair ==
  \/ \E c \in Conns : PairConnect(c) \/ PairDisconnect(c)
  \/ \E d \in HubIds, loc \in LocationInputs : PairLocationUpdate(d, loc)
  \/ \E c \in Conns, d \in HubIds : PairTrackDelivery(c, d)

PairSpec == HubInit /\ [][NextPair]_vars

\* The events of one delivery, among them events whose payload has no
\* deliveryId.
MalformedEvent ==
  \/ \E loc \in LocationInputs : LocationUpdate(Undefined, loc)
  \/ \E status \in HubStatusInputs, eta \in EtaInputs :
       StatusUpdate(Undefined, status, eta)

NextMalformed == (NextHub \/ MalformedEvent) /\ Len(timers') <= MaxRoomTimers

MalformedSpec == HubInit /\ [][NextMalformed]_vars

(* ------------------------------ claims --------------------------------- *)
\* The eligibility the specification states for a candidate partner.
Qualifies(p) ==
  /\ partners[p].isActive
  /\ partners[p].isAvailable
  /\ partners[p].currentOrders < MAX_CONCURRENT

\* Rows of partner p whose status is in S.
RowsOf(p, S) ==
  {i \in 1..Len(deliveries) : deliveries[i].partnerId = p /\ deliveries[i].status \in S}

\* C1: under every interleaving of concurrent assign requests, no partner's
\* currentOrders ever exceeds 3.  (Violated: two requests read the same
\* partner at 2 before either increments.)
C1_CapNeverExceeded ==
  \A p \in Partners : partners[p].currentOrders <= MAX_CONCURRENT

\* C2: when an (authorised) assign request runs its partner search and no
\* partner is active, available and below 3 orders, it answers 400 "no
\* delivery partners available" at once: no Delivery row is created, no
\* partner row changes, nothing is emitted and the handler is over.
C2_NoPartnerAvailable ==
  [][\A r \in Reqs :
       ( /\ \E pickup \in PickupInputs : AssignFindPartner(r, pickup)
         /\ ~ \E p \in Partners : Qualifies(p) )
       => /\ res' = Response(r, "assign", 400)
          /\ deliveries' = deliveries
          /\ partners' = partners
          /\ ioOut' = {}
          /\ req'[r] = IdleReq]_vars

\* An assign request has just been answered 400 while a partner sits at the
\* cap and no partner qualifies.
C2_Witness ==
  /\ \E r \in Reqs : res = Response(r, "assign", 400)
  /\ \E p \in Partners : partners[p].currentOrders = MAX_CONCURRENT
  /\ ~ \E p \in Partners : Qualifies(p)

\* C3: with one request at a time, an assign request selects only a partner
\* that is active, available and below 3 orders; until it answers 200 the one
\* change to the partner rows is that partner's currentOrders, one above the
\* value read at selection; and when the sole eligible partner was read at 2,
\* the next partner search finds nobody.
C3_SequentialAssign ==
  [][\A r \in Reqs :
       LET p == req[r].availablePartner.id IN
       /\ (req[r].pc = "idle" /\ req'[r].pc = "create")
            => /\ Qualifies(req'[r].availablePartner.id)
               /\ partners' = partners
       /\ (req[r].pc = "create" /\ req'[r] # req[r]) => partners' = partners
       /\ (req[r].pc = "increment" /\ req'[r] # req[r])
            => partners' = [partners EXCEPT ![p].currentOrders =
                              req[r].availablePartner.currentOrders + 1]
       /\ (req[r].pc = "emit" /\ req'[r] # req[r])
            => /\ partners' = partners
               /\ res' = Response(r, "assign", 200)
               /\ partners[p].currentOrders = req[r].availablePartner.currentOrders + 1
       /\ (req[r].pc = "increment" /\ req'[r] # req[r]
             /\ \A q \in Partners \ {p} : ~ Qualifies(q)
             /\ req[r].availablePartner.currentOrders = MAX_CONCURRENT - 1)
            => FindFirstPartner' = {None}]_vars

\* The sole eligible partner was read at 2 orders and now holds 3; the
\* request is about to answer.
C3_Witness ==
  \E r \in Reqs :
    /\ req[r].pc = "emit"
    /\ req[r].availablePartner.currentOrders = MAX_CONCURRENT - 1
    /\ partners[req[r].availablePartner.id].currentOrders = MAX_CONCURRENT
    /\ ~ \E q \in Partners : Qualifies(q)

\* C4: a DELIVERED update lowers the partner's currentOrders by exactly 1 and
\* raises totalDeliveries by exactly 1, and a DELIVERED update of a delivery
\* that is already DELIVERED changes no partner row.  (Violated: the second
\* request decrements and increments again.)
C4_DeliveredIdempotent ==
  [][\A r \in Reqs :
       ( /\ req[r].kind = "status" /\ req[r].status = "DELIVERED"
         /\ Exists(req[r].id)
         /\ req'[r] # req[r] )
       => IF deliveries[req[r].id].status = "DELIVERED"
            THEN partners' = partners
            ELSE req[r].pc = "partner"
                   => LET p == deliveries[req[r].id].partnerId
                      IN  partners' =
                            [partners EXCEPT ![p].currentOrders = @ - 1,
                                             ![p].totalDeliveries = @ + 1]]_vars

\* C5: currentOrders is never negative.  (Violated: the decrement of a
\* repeated DELIVERED update is not clamped.)
C5_NeverNegative ==
  \A p \in Partners : partners[p].currentOrders >= 0

\* C9: a freshly assigned Delivery (status ASSIGNED) has estimatedDeliveryTime
\* = estimatedPickupTime + 30 minutes, and for the request that created it
\* estimatedPickupTime is the time the request carried.
C9_EtaIsPickupPlus30 ==
  /\ \A i \in 1..Len(deliveries) :
       deliveries[i].status = "ASSIGNED"
         => deliveries[i].estimatedDeliveryTime =
              deliveries[i].estimatedPickupTime + 30 * 60 * 1000
  /\ \A r \in Reqs :
       req[r].delivery # 0
         => /\ req[r].estimatedPickupTime.isDate
            /\ deliveries[req[r].delivery].estimatedDeliveryTime =
                 req[r].estimatedPickupTime.ms + 30 * 60 * 1000

\* A delivery was created from a pickup time of 00:45:00.250, so that adding
\* 30 minutes carries into the next hour.
C9_Witness ==
  \E r \in Reqs :
    /\ req[r].delivery # 0
    /\ req[r].estimatedPickupTime.ms = 2700250
    /\ deliveries[req[r].delivery].estimatedDeliveryTime = 4500250

\* C10: FAILED and CANCELLED release the partner's capacity: with no request
\* in progress, a partner's currentOrders counts none of its deliveries that
\* ended FAILED or CANCELLED, so it is at most the number of its other
\* deliveries.  (Violated: the handler leaves the counter alone.)
C10_FailedReleasesCapacity ==
  (\A r \in Reqs : Free(r))
    => \A p \in Partners :
         partners[p].currentOrders
           <= Cardinality(RowsOf(p, DeliveryStatus \ {"FAILED", "CANCELLED"}))

\* C11: the Delivery row and the increment of its partner's currentOrders are
\* one atomic unit: in every state, a failure between the two writes included,
\* each partner's currentOrders counts exactly its deliveries in progress.
\* (Violated: the row is stored by one statement and the counter raised by a
\* later one, with no transaction around them.)
C11_CreateAndIncrementAtomic ==
  \A p \in Partners :
    partners[p].currentOrders = Cardinality(RowsOf(p, {"ASSIGNED"}))

\* The place of a status on the path the specification gives:
\* ASSIGNED -> {ON_THE_WAY_TO_STORE, ARRIVED_AT_STORE} -> PICKED_UP
\*          -> {ON_THE_WAY, ARRIVED} -> DELIVERED.
StatusRank(status) ==
  CASE status = "ASSIGNED" -> 0
    [] status \in {"ON_THE_WAY_TO_STORE", "ARRIVED_AT_STORE"} -> 1
    [] status = "PICKED_UP" -> 2
    [] status \in {"ON_THE_WAY", "ARRIVED"} -> 3
    [] OTHER -> 4

\* C12: the status of a delivery only moves forward on that path, or to FAILED
\* or CANCELLED from a status that is not terminal; a delivery that is
\* DELIVERED, FAILED or CANCELLED keeps its status.  (Violated: the handler
\* writes whatever status the request carries.)
C12_StatusMonotonic ==
  [][\A i \in 1..Len(deliveries) :
       LET from == deliveries[i].status
           to   == deliveries'[i].status
       IN  to # from
             => /\ from \notin TerminalStatus
                /\ \/ to \in {"FAILED", "CANCELLED"}
                   \/ StatusRank(to) >= StatusRank(from)]_vars

\* C6: a track-delivery of socket c for delivery d makes c, and nobody else,
\* receive at once the status and estimatedDeliveryTime the record of d holds
\* (ASSIGNED and none for a record created by this very event) and, when the
\* record holds a partnerLocation, that location; nothing goes to the room.
C6_ReplayOnSubscribe ==
  [][\A c \in Conns, d \in HubIds :
       TrackDelivery(c, d)
       => LET known  == activeDeliveries[d] # 0
              stored == GetDeliveryStatus(d)
              statusMsg ==
                [to |-> c, via |-> "socket", event |-> "delivery-status",
                 status |-> IF known THEN stored.status ELSE "ASSIGNED",
                 estimatedDeliveryTime |->
                   IF known THEN stored.estimatedDeliveryTime ELSE "",
                 location |-> NoLocation]
              locationMsg ==
                [to |-> c, via |-> "socket", event |-> "partner-location",
                 status |-> "", estimatedDeliveryTime |-> "",
                 location |-> stored.partnerLocation]
          IN  sent' = IF known /\ stored.partnerLocation.present
                        THEN {statusMsg, locationMsg}
                        ELSE {statusMsg}]_vars

\* Socket c has just subscribed late: it was sent the stored status DELIVERED
\* with its estimatedDeliveryTime and the stored location, while another
\* socket sits in the room and was sent nothing.
C6_Witness ==
  \E c \in Conns, d \in HubIds :
    /\ rooms[d] \ {c} # {}
    /\ \A m \in sent : m.to = c /\ m.via = "socket"
    /\ \E m \in sent : /\ m.event = "delivery-status"
                       /\ m.status = "DELIVERED"
                       /\ m.estimatedDeliveryTime = "18:30"
    /\ \E m \in sent : /\ m.event = "partner-location"
                       /\ m.location = GetDeliveryStatus(d).partnerLocation
                       /\ m.location.present

\* A cleanup for delivery d runs in this step.
CleanupOf(d) == CleanupFires /\ Head(timers).deliveryId = d

\* C7: once an unsubscribe has emptied the subscriber set, getDeliveryStatus
\* returns the record until the cleanup that unsubscribe scheduled runs (so a
\* record never goes while a later cleanup for it is pending); that cleanup
\* removes the record when it finds no subscriber, and leaves it when a
\* subscriber is present.  (Violated: an older cleanup removes the record.)
C7_RetainedUntilCleanup ==
  [][\A d \in HubIds :
       /\ (activeDeliveries[d] # 0 /\ activeDeliveries'[d] = 0)
            => \A i \in 1..Len(timers') :
                 ~ (timers'[i].deliveryId = d /\ timers'[i].emptied)
       /\ (CleanupOf(d) /\ Head(timers).emptied /\ activeDeliveries[d] # 0)
            => IF GetDeliveryStatus(d).subscribers = {}
                 THEN Len(timers) = 1 => activeDeliveries'[d] = 0
                 ELSE activeDeliveries'[d] = activeDeliveries[d]]_vars

\* C8: no cleanup removes a record whose subscriber set is not empty when the
\* cleanup runs.  (Violated: the cleanup tests the object it captured, and
\* removes whatever record the id has by then.)
C8_CleanupSparesSubscribed ==
  [][\A d \in HubIds :
       (activeDeliveries[d] # 0 /\ activeDeliveries'[d] = 0)
         => GetDeliveryStatus(d).subscribers = {}]_vars

\* C13: getDeliveryStatus, and the GET /api/deliveries/:id request that calls
\* it, leave the registry as it was: no record is made for an id that has
\* none, and no record's location, status, estimatedDeliveryTime or
\* subscriber set changes (nor do the rooms or the pending cleanups).
C13_GetDeliveryReadOnly ==
  [][\A d \in HubIds, found \in BOOLEAN :
       GetDelivery(d, found)
       => /\ activeDeliveries' = activeDeliveries
          /\ \A x \in HubIds : GetDeliveryStatus(x)' = GetDeliveryStatus(x)
          /\ heap' = heap
          /\ rooms' = rooms
          /\ timers' = timers]_vars

\* A GET has just answered realtime: null for a delivery id without a record,
\* and the id still has no record, while HubId's record holds a location and a
\* subscriber.
C13_Witness ==
  /\ \E m \in sent : m.via = "res" /\ m.event = "delivery" /\ m.status = ""
  /\ \E d \in HubIds : activeDeliveries[d] = 0
  /\ activeDeliveries[HubId] # 0
  /\ GetDeliveryStatus(HubId).partnerLocation.present
  /\ GetDeliveryStatus(HubId).subscribers # {}

\* C14: a record whose subscriber set becomes empty and stays empty is deleted
\* in the end, whether an unsubscribe or a disconnect emptied it or it never
\* had a subscriber: no record stays in the registry for ever with an empty
\* subscriber set.  (Violated: only stop-tracking schedules a cleanup.)
C14_EmptyRecordEventuallyDeleted ==
  \A d \in HubIds :
    ~ <>[](activeDeliveries[d] # 0 /\ GetDeliveryStatus(d).subscribers = {})

\* C15: when a delivery-status event reports a terminal status (DELIVERED,
\* FAILED, CANCELLED) for a delivery whose record has no subscriber, the
\* record is gone as soon as the event is handled.  (Violated: the handler
\* stores the status and never deletes.)
C15_TerminalStatusDeletes ==
  [][\A d \in HubIds, status \in HubStatusInputs \cap TerminalStatus, eta \in EtaInputs :
       ( /\ StatusUpdate(d, status, eta)
         /\ GetDeliveryStatus(d).subscribers = {} )
       => activeDeliveries'[d] = 0]_vars

\* C16: after the disconnect of socket c every record is still in the registry
\* and c is in no record's subscriber set, whatever deliveries it had
\* subscribed to; the other subscribers of each record and its location,
\* status and estimatedDeliveryTime are as before.
C16_DisconnectFrame ==
  [][\A c \in Conns :
       Disconnect(c)
       => /\ activeDeliveries' = activeDeliveries
          /\ \A d \in HubIds :
               LET before == GetDeliveryStatus(d)
                   after  == GetDeliveryStatus(d)'
               IN  /\ c \notin after.subscribers
                   /\ after.subscribers = before.subscribers \ {c}
                   /\ after.partnerLocation = before.partnerLocation
                   /\ after.status = before.status
                   /\ after.estimatedDeliveryTime = before.estimatedDeliveryTime]_vars

\* The last subscriber of the second delivery has disconnected without
\* unsubscribing (its record is there with nobody in it and nothing was
\* emitted), while the record of HubId keeps its other subscriber, its
\* location and its status.
C16_Witness ==
  /\ connected # Conns
  /\ sent = {}
  /\ \A d \in HubIds : activeDeliveries[d] # 0
  /\ \E d \in HubIds \ {HubId} : GetDeliveryStatus(d).subscribers = {}
  /\ GetDeliveryStatus(HubId).subscribers = connected
  /\ connected # {}
  /\ GetDeliveryStatus(HubId).partnerLocation.present
  /\ GetDeliveryStatus(HubId).status = RoomsStatus

\* The connected sockets whose most recent track-delivery / stop-tracking
\* event for d was a track-delivery.  socket.io keeps exactly this set as the
\* room of d: track-delivery joins it, stop-tracking leaves it, a disconnect
\* takes the socket out.
LastSubscribed(d) == rooms[d]

\* C17: whatever the order of the track-delivery, stop-tracking and disconnect
\* events of the sockets, a record that exists has as subscriber set exactly
\* the connected sockets whose most recent track/stop event for the delivery
\* was a track-delivery.  (Violated: a stale cleanup removes the record with
\* its subscribers, and the record made next starts empty.)
C17_NoLostSubscriber ==
  \A d \in HubIds :
    activeDeliveries[d] # 0 => GetDeliveryStatus(d).subscribers = LastSubscribed(d)

\* The sockets the messages in S are addressed to.
Receivers(S) == {m.to : m \in S}

\* C18: the broadcast of a location-update or delivery-status event for
\* delivery d goes to exactly the sockets subscribed to d's topic (the room
\* delivery-<d>) when the event is handled: each gets one partner-location
\* (delivery-status) message, and a socket that never subscribed to d,
\* unsubscribed from it or subscribed to another delivery only gets nothing.
C18_BroadcastToSubscribers ==
  [][\A d \in HubIds :
       /\ (\E loc \in LocationInputs : LocationUpdate(d, loc))
            => /\ Receivers(sent') = rooms[d]
               /\ Cardinality(sent') = Cardinality(rooms[d])
               /\ \A m \in sent' : m.event = "partner-location"
       /\ (\E status \in HubStatusInputs, eta \in EtaInputs : StatusUpdate(d, status, eta))
            => /\ Receivers(sent') = rooms[d]
               /\ Cardinality(sent') = Cardinality(rooms[d])
               /\ \A m \in sent' : m.event = "delivery-status"]_vars

\* A location of HubId has just been broadcast: its subscriber got it, and a
\* connected socket that is subscribed to the other delivery only got nothing.
C18_Witness ==
  \E c \in Conns, other \in Conns \ Receivers(sent) :
    /\ \E m \in sent : m.to = c /\ m.via = "room" /\ m.event = "partner-location"
    /\ c \in rooms[HubId]
    /\ other \in connected
    /\ other \notin rooms[HubId]
    /\ \E d \in HubIds \ {HubId} :
         other \in rooms[d] /\ other \in GetDeliveryStatus(d).subscribers

\* C19: after a location-update event the stored partnerLocation is the
\* reading of that event (lat, lng and timestamp), whatever the timestamp of
\* the reading stored before: a reading with an older timestamp replaces a
\* newer one.
C19_LastWriteWins ==
  [][\A d \in HubIds, loc \in LocationInputs :
       LocationUpdate(d, loc)
       => LET stored == GetDeliveryStatus(d)'.partnerLocation
          IN  /\ stored.present
              /\ stored.lat = loc.lat
              /\ stored.lng = loc.lng
              /\ stored.timestamp.valid
              /\ stored.timestamp.time = loc.timestamp.ms]_vars

\* The reading with the older of the two timestamps has just been handled
\* (the room got it) and is the stored one.
C19_Witness ==
  \E older \in LocationInputs :
    /\ \E newer \in LocationInputs : older.timestamp.ms < newer.timestamp.ms
    /\ GetDeliveryStatus(HubId).partnerLocation = Reading(older)
    /\ \E m \in sent : /\ m.via = "room"
                       /\ m.event = "partner-location"
                       /\ m.location.lat = older.lat
                       /\ m.location.timestamp = older.timestamp

\* C20: a delivery-status event always stores the status it carries, and
\* stores its estimatedDeliveryTime only when it carries one that is not
\* empty: after an event without it the stored value, and the value broadcast
\* with the status, is the one stored before.
C20_PartialStatusUpdate ==
  [][\A d \in HubIds, status \in HubStatusInputs, eta \in EtaInputs :
       StatusUpdate(d, status, eta)
       => LET before == GetDeliveryStatus(d)
              after  == GetDeliveryStatus(d)'
          IN  /\ after.status = status
              /\ after.estimatedDeliveryTime =
                   (IF eta # "" THEN eta ELSE before.estimatedDeliveryTime)
              /\ \A m \in sent' :
                   /\ m.status = status
                   /\ m.estimatedDeliveryTime = after.estimatedDeliveryTime
                   /\ eta = "" => m.estimatedDeliveryTime = before.estimatedDeliveryTime]_vars

\* The subscriber of HubId has just been sent DELIVERED together with the
\* estimatedDeliveryTime the record holds.
C20_Witness ==
  /\ GetDeliveryStatus(HubId).status = "DELIVERED"
  /\ GetDeliveryStatus(HubId).estimatedDeliveryTime # ""
  /\ \E m \in sent :
       /\ m.via = "room"
       /\ m.event = "delivery-status"
       /\ m.status = "DELIVERED"
       /\ m.estimatedDeliveryTime = GetDeliveryStatus(HubId).estimatedDeliveryTime

\* C21: a location-update or delivery-status event whose payload has no
\* deliveryId is dropped: the registry has the records it had, no record of
\* any delivery changes, and the hub goes on handling events.  (Violated: the
\* handlers do not look at the payload; they make a record under the key
\* undefined, or change the one that is there.)
C21_MalformedDropped ==
  [][MalformedEvent
       => /\ activeDeliveries' = activeDeliveries
          /\ heap' = heap]_vars

\* The request q cannot be carried out: its status is no DeliveryStatus, or no
\* Delivery has its id.
Rejectable(q) ==
  q.kind = "status" /\ (q.status \notin DeliveryStatus \/ ~ Exists(q.id))

\* C22: a status update that is rejected because its status is none of the
\* nine enum values or because no Delivery has its id changes nothing: none
\* of its steps changes a Delivery row or a partner row or emits an event, it
\* never reaches the partner update, and it ends with an error answer; and
\* every status update answered with an error is such a request.
C22_RejectedChangesNothing ==
  [][\A r \in Reqs :
       /\ (req'[r] # req[r] /\ (Rejectable(req[r]) \/ Rejectable(req'[r])))
            => /\ deliveries' = deliveries
               /\ partners' = partners
               /\ ioOut' = {}
               /\ IF Free(r)
                    THEN req'[r].pc = "update" /\ req'[r].found = None
                    ELSE /\ req[r].pc = "update" /\ req[r].found = None
                         /\ res' = Response(r, "status", 500)
                         /\ req'[r] = IdleReq
       /\ res' = Response(r, "status", 500)
            => Rejectable(req[r]) /\ req[r].found = None]_vars

\* A status update has just been answered with an error, after an earlier
\* DELIVERED update went through: the partner's counters are the ones that
\* update left.
C22_Witness ==
  /\ res = Response(SeqReq, "status", 500)
  /\ Free(SeqReq)
  /\ ioOut = {}
  /\ \E p \in Partners : /\ partners[p].totalDeliveries = 1
                         /\ partners[p].currentOrders = InitialOrders - 1
  /\ Cardinality({i \in 1..Len(deliveries) : deliveries[i].status = "DELIVERED"}) = 1

\* C23: an assign request emits delivery-created exactly when it succeeds, in
\* the step that answers 200 and in no other: that step emits one event, with
\* the id of the row the request stored, status ASSIGNED and the partner the
\* row is assigned to, and by then the row is in the store and the partner's
\* currentOrders has been raised above the value read at selection.  A step
\* that answers anything else, or does not answer, emits nothing.
C23_CreatedEmittedOnce ==
  [][\A r \in Reqs :
       req'[r] # req[r] \/ res' \in {Response(r, "assign", c) : c \in {400, 401, 500}}
       => IF res' = Response(r, "assign", 200)
            THEN LET id == req[r].delivery
                     p  == req[r].availablePartner.id
                 IN  /\ Exists(id)
                     /\ deliveries[id].partnerId = p
                     /\ partners[p].currentOrders > req[r].availablePartner.currentOrders
                     /\ ioOut' = {[event |-> "delivery-created", deliveryId |-> id,
                                   status |-> "ASSIGNED", partner |-> p]}
                     /\ deliveries' = deliveries
                     /\ partners' = partners
            ELSE ioOut' = {}]_vars

\* The request for the newest row has just answered 200 and emitted
\* delivery-created for it, with the partner that was read at 0 orders and now
\* has 1.
C23_Witness ==
  \E r \in Reqs :
    /\ res = Response(r, "assign", 200)
    /\ ioOut = {[event |-> "delivery-created", deliveryId |-> Len(deliveries),
                 status |-> "ASSIGNED", partner |-> "p2"]}
    /\ deliveries[Len(deliveries)].partnerId = "p2"
    /\ partners["p2"].currentOrders = 1

\* C24: the tracking record is never the only place that holds a terminal
\* status: whenever the record of a delivery holds DELIVERED, FAILED or
\* CANCELLED, the Delivery row of that delivery holds the same status.
\* (Violated: the delivery-status handler of the hub writes the registry and
\* nothing else.)
C24_TerminalStatusPersisted ==
  ( /\ activeDeliveries[HubId] # 0
    /\ GetDeliveryStatus(HubId).status \in TerminalStatus )
  => deliveries[HubRow].status = GetDeliveryStatus(HubId).status

\* C25: when a REST status update of delivery D with status s has succeeded,
\* the hub's record of D holds s, and the location of the request when it
\* carried one, so that a socket that subscribes next is replayed them.
\* (Violated: the REST handler broadcasts to the room and leaves the registry
\* alone.)
C25_RestUpdateReachesHub ==
  [][\A r \in Reqs :
       res' = Response(r, "status", 200)
       => LET stored == GetDeliveryStatus(HubId)'
          IN  /\ activeDeliveries'[HubId] # 0
              /\ stored.status = req[r].status
              /\ HasLatLng(req[r].location)
                   => /\ stored.partnerLocation.present
                      /\ stored.partnerLocation.lat = req[r].location.lat
                      /\ stored.partnerLocation.lng = req[r].location.lng]_vars

\* C26: whenever no request is in progress, each partner's currentOrders is
\* the number of its Delivery rows whose status is not DELIVERED, FAILED or
\* CANCELLED, after any sequence of assign and status-update requests.
\* (Violated: FAILED and CANCELLED leave the counter, and a repeated
\* DELIVERED lowers it again.)
C26_CounterMatchesRows ==
  (\A r \in Reqs : Free(r))
    => \A p \in Partners :
         partners[p].currentOrders
           = Cardinality(RowsOf(p, DeliveryStatus \ TerminalStatus))

\* C27: a DELIVERED update that fails at the write of the Delivery row leaves
\* the partner's counters as they were, so that with its retries the request
\* lowers currentOrders and raises totalDeliveries once in all: whenever no
\* request is in progress, a partner's totalDeliveries counts its DELIVERED
\* rows and its currentOrders the others.  (Violated: the partner row is
\* written first and the failure does not undo it.)
C27_FailedWriteKeepsCounters ==
  (\A r \in Reqs : Free(r))
    => \A p \in Partners :
         /\ partners[p].totalDeliveries = Cardinality(RowsOf(p, {"DELIVERED"}))
         /\ partners[p].currentOrders
              = Cardinality(RowsOf(p, DeliveryStatus \ {"DELIVERED"}))

\* C28: in every state and for every delivery id, the sockets joined to the
\* room delivery-<id> are the subscriber set of the id's record, and nobody is
\* in the room of an id that has no record.  (Violated: a stale cleanup
\* removes a record whose subscribers stay in the room.)
C28_RoomIsSubscriberSet ==
  \A d \in HubIds :
    rooms[d] = IF activeDeliveries[d] = 0 THEN {} ELSE GetDeliveryStatus(d).subscribers

\* A cleanup for delivery d is pending behind the oldest one, scheduled by an
\* unsubscribe that emptied the subscriber set: somebody subscribed and
\* unsubscribed after the oldest cleanup was scheduled.
LaterEmptying(d) ==
  \E i \in 2..Len(timers) : timers[i].deliveryId = d /\ timers[i].emptied

\* C29: a cleanup removes the record only when the subscriber set has been
\* empty ever since the unsubscribe that scheduled it: when a socket has
\* subscribed and unsubscribed again in between, the earlier cleanup leaves
\* the record to the cleanup of the latest emptying.  (Violated: the cleanup
\* looks at the subscriber set as it is when it runs.)
C29_OnlyLatestCleanupDeletes ==
  [][\A d \in HubIds :
       (CleanupOf(d) /\ Head(timers).emptied /\ LaterEmptying(d))
       => activeDeliveries'[d] = activeDeliveries[d]]_vars

\* What a set of messages delivers: the event and its payload, for each
\* receiver.
Delivered(S) ==
  {[to |-> m.to, event |-> m.event, status |-> m.status,
    estimatedDeliveryTime |-> m.estimatedDeliveryTime, location |-> m.location] :
     m \in S}

\* C30: given the same location-update and track-delivery events, the socket
\* handlers of server.ts emit what the handlers of websocket.ts emit, to the
\* same sockets, the replay to a socket that subscribes included.  (Violated:
\* server.ts's track-delivery joins the room and replays nothing.)
C30_EntryEmitsAsHub ==
  Delivered(entrySent) = Delivered(sent)

====
